---- MODULE Spec2Model ----
(***************************************************************************)
(* Model of the execution context of the cli package (context.go).         *)
(*                                                                         *)
(* Strings are sequences of one-character strings, so that joining,        *)
(* JSON encoding, indentation and fmt formatting are computed character by *)
(* character.  A Go pointer or interface that may be nil is a sequence of  *)
(* length at most one: <<>> is nil and <<x>> points to x.  A writer is the *)
(* index of a sink in `sinks`; 0 is the nil writer.                        *)
(***************************************************************************)
EXTENDS Integers, Sequences, FiniteSets, TLC

VARIABLES phase, input, ctx, err, sinks, lastOp, ret, wrote, panicked,
          nwrites, firstWriter, serial, pc, tnew, tret, tcalls

vars == <<phase, input, ctx, err, sinks, lastOp, ret, wrote, panicked,
          nwrites, firstWriter, serial, pc, tnew, tret, tcalls>>

seqVars == <<phase, input, ctx, err, sinks, lastOp, ret, wrote, panicked,
             nwrites, firstWriter>>

thrVars == <<serial, pc, tnew, tret, tcalls>>

(* ---------------------------------------------------------------------- *)
(* Bounds                                                                 *)
(* ---------------------------------------------------------------------- *)
MaxLen == 1
MaxWrites == 2
NThreads == 2
MaxThreadCalls == 2

(* ---------------------------------------------------------------------- *)
(* Characters and strings                                                 *)
(* ---------------------------------------------------------------------- *)
None == <<>>
Some(x) == <<x>>

NilErr == "nil"
NilArgv == "nil"
NilWriter == 0

SP == <<" ">>
NL == <<"\n">>
QUOTE == "\""
Hello == <<"h", "e", "l", "l", "o">>
World == <<"w", "o", "r", "l", "d">>

RECURSIVE Concat(_)
Concat(ss) == IF ss = <<>> THEN <<>> ELSE Head(ss) \o Concat(Tail(ss))

RECURSIVE Repeat(_, _)
Repeat(s, n) == IF n <= 0 THEN <<>> ELSE s \o Repeat(s, n - 1)

RECURSIVE Join(_, _)
Join(elems, sep) ==
  IF Len(elems) = 0 THEN <<>>
  ELSE IF Len(elems) = 1 THEN elems[1]
  ELSE elems[1] \o sep \o Join(Tail(elems), sep)

RECURSIVE StringsUpTo(_, _)
StringsUpTo(alphabet, n) ==
  IF n = 0 THEN {<<>>}
  ELSE LET shorter == StringsUpTo(alphabet, n - 1)
       IN shorter \cup {Append(s, ch) : s \in shorter, ch \in alphabet}

(* ---------------------------------------------------------------------- *)
(* The parser collaborator                                                *)
(* ---------------------------------------------------------------------- *)
(* A destination value declares the flags the parser knows.  A token that  *)
(* starts with '-' is a flag token "-name=value"; every other token is a   *)
(* free argument.  A flag token whose name is not declared is an error.    *)
DeclaredFlags(argv) == IF argv = "argvA" THEN {<<"a">>} ELSE {}

newFlagSet ==
  [flagMap |-> [f \in {} |-> [actual |-> <<>>]],
   values  |-> [f \in {} |-> <<>>],
   args    |-> <<>>,
   err     |-> NilErr]

isFlagToken(tok) == Len(tok) > 0 /\ tok[1] = "-"

isFreeToken(tok) == ~isFlagToken(tok)

RECURSIVE stripDashes(_)
stripDashes(tok) ==
  IF isFlagToken(tok) THEN stripDashes(Tail(tok)) ELSE tok

RECURSIVE indexOfEq(_, _)
indexOfEq(str, i) ==
  IF i > Len(str) THEN 0
  ELSE IF str[i] = "=" THEN i
  ELSE indexOfEq(str, i + 1)

flagName(tok) ==
  LET body == stripDashes(tok)
      k == indexOfEq(body, 1)
  IN IF k = 0 THEN body ELSE SubSeq(body, 1, k - 1)

flagValue(tok) ==
  LET body == stripDashes(tok)
      k == indexOfEq(body, 1)
  IN IF k = 0 THEN <<>> ELSE SubSeq(body, k + 1, Len(body))

parseArgv(args, argv, clr) ==
  LET declared == DeclaredFlags(argv)
      flagToks == SelectSeq(args, isFlagToken)
      supplied(f) == {i \in DOMAIN flagToks : flagName(flagToks[i]) = f}
      actualOf(f) ==
        IF supplied(f) = {} THEN <<>>
        ELSE flagValue(flagToks[CHOOSE i \in supplied(f) :
                                  \A j \in supplied(f) : j <= i])
      fm == [f \in declared |-> [actual |-> actualOf(f)]]
  IN [flagMap |-> fm,
      values  |-> [f \in {g \in declared : supplied(g) # {}} |-> <<actualOf(f)>>],
      args    |-> SelectSeq(args, isFreeToken),
      err     |-> IF \E i \in DOMAIN flagToks : flagName(flagToks[i]) \notin declared
                  THEN "undefined flag" ELSE NilErr]

(* ---------------------------------------------------------------------- *)
(* Construction                                                           *)
(* ---------------------------------------------------------------------- *)
Result(c, s, r, p) == [ctx |-> c, sinks |-> s, ret |-> r, panic |-> p]

newContextKeepsCtxOnError(path, router, args, argv, clr, parsed) ==
  LET ctx0 == [router       |-> router,
               path         |-> path,
               argv         |-> argv,
               nativeArgs   |-> args,
               flagSet      |-> Some(newFlagSet),
               command      |-> "nil",
               writer       |-> NilWriter,
               color        |-> clr,
               HTTPRequest  |-> "nil",
               HTTPResponse |-> "nil"]
  IN IF argv # NilArgv
     THEN [ctx |-> Some([ctx0 EXCEPT !.flagSet = Some(parsed)]), err |-> parsed.err]
     ELSE [ctx |-> Some(ctx0), err |-> NilErr]

newContextNoFlagSet(path, router, args, argv, clr, parsed) ==
  LET ctx0 == [router       |-> router,
               path         |-> path,
               argv         |-> argv,
               nativeArgs   |-> args,
               flagSet      |-> None,
               command      |-> "nil",
               writer       |-> NilWriter,
               color        |-> clr,
               HTTPRequest  |-> "nil",
               HTTPResponse |-> "nil"]
  IN IF argv # NilArgv
     THEN IF parsed.err # NilErr
          THEN [ctx |-> None, err |-> parsed.err]
          ELSE [ctx |-> Some([ctx0 EXCEPT !.flagSet = Some(parsed)]), err |-> NilErr]
     ELSE [ctx |-> Some(ctx0), err |-> NilErr]

newContextNoPath(path, router, args, argv, clr, parsed) ==
  LET ctx0 == [router       |-> router,
               path         |-> <<>>,
               argv         |-> argv,
               nativeArgs   |-> args,
               flagSet      |-> Some(newFlagSet),
               command      |-> "nil",
               writer       |-> NilWriter,
               color        |-> clr,
               HTTPRequest  |-> "nil",
               HTTPResponse |-> "nil"]
  IN IF argv # NilArgv
     THEN IF parsed.err # NilErr
          THEN [ctx |-> None, err |-> parsed.err]
          ELSE [ctx |-> Some([ctx0 EXCEPT !.flagSet = Some(parsed)]), err |-> NilErr]
     ELSE [ctx |-> Some(ctx0), err |-> NilErr]

newContext(path, router, args, argv, clr, parsed) ==
  LET ctx0 == [router       |-> router,
               path         |-> path,
               argv         |-> argv,
               nativeArgs   |-> args,
               flagSet      |-> Some(newFlagSet),
               command      |-> "nil",
               writer       |-> NilWriter,
               color        |-> clr,
               HTTPRequest  |-> "nil",
               HTTPResponse |-> "nil"]
  IN IF argv # NilArgv
     THEN LET ctx1 == [ctx0 EXCEPT !.flagSet = Some(parsed)]
          IN IF ctx1.flagSet[1].err # NilErr
             THEN [ctx |-> None, err |-> ctx1.flagSet[1].err]
             ELSE [ctx |-> Some(ctx1), err |-> NilErr]
     ELSE [ctx |-> Some(ctx0), err |-> NilErr]

(* ---------------------------------------------------------------------- *)
(* Accessors                                                              *)
(* ---------------------------------------------------------------------- *)
Path(c, s) == Result(c, s, c.path, "none")

Router(c, s) == Result(c, s, c.router, "none")

NativeArgs(c, s) == Result(c, s, c.nativeArgs, "none")

Args(c, s) ==
  IF c.flagSet = None THEN Result(c, s, "none", "nil dereference")
  ELSE Result(c, s, c.flagSet[1].args, "none")

NArgOfNativeArgs(c, s) == Result(c, s, Len(c.nativeArgs), "none")

NArg(c, s) ==
  IF c.flagSet = None THEN Result(c, s, "none", "nil dereference")
  ELSE Result(c, s, Len(c.flagSet[1].args), "none")

Argv(c, s) == Result(c, s, c.argv, "none")

IsSetIgnoresActual(c, s, flag) ==
  IF c.flagSet = None THEN Result(c, s, "none", "nil dereference")
  ELSE Result(c, s, flag \in DOMAIN c.flagSet[1].flagMap, "none")

IsSet(c, s, flag) ==
  IF c.flagSet = None THEN Result(c, s, "none", "nil dereference")
  ELSE IF flag \notin DOMAIN c.flagSet[1].flagMap THEN Result(c, s, FALSE, "none")
  ELSE Result(c, s, c.flagSet[1].flagMap[flag].actual # <<>>, "none")

FormValues(c, s) ==
  IF c.flagSet = None THEN Result(c, s, "none", "ctx.flagSet == nil")
  ELSE Result(c, s, c.flagSet[1].values, "none")

Command(c, s) == Result(c, s, c.command, "none")

Color(c, s) == Result(c, s, c.color, "none")

(* ---------------------------------------------------------------------- *)
(* encoding/json on the modelled values                                   *)
(*   [kind |-> "str", s |-> chars]  a Go string over ValueAlphabet         *)
(*   [kind |-> "obj", s |-> chars]  map[string]string{"k": s}              *)
(*   [kind |-> "chan"]              a channel: json reports an error       *)
(* No character of ValueAlphabet is escaped by the encoder.               *)
(* ---------------------------------------------------------------------- *)
ValueAlphabet == {"a", "%"}

Serializable ==
  {[kind |-> "str", s |-> str] : str \in StringsUpTo(ValueAlphabet, MaxLen)}
    \cup {[kind |-> "obj", s |-> str] : str \in StringsUpTo(ValueAlphabet, MaxLen - 1)}

Unserializable == {[kind |-> "chan", s |-> <<>>]}

Values == Serializable \cup Unserializable

encodeString(str) == <<QUOTE>> \o str \o <<QUOTE>>

Marshal(v) ==
  IF v.kind = "str" THEN [data |-> encodeString(v.s), err |-> NilErr]
  ELSE IF v.kind = "obj"
  THEN [data |-> <<"{">> \o encodeString(<<"k">>) \o <<":">>
                   \o encodeString(v.s) \o <<"}">>,
        err |-> NilErr]
  ELSE [data |-> <<>>, err |-> "json: unsupported type"]

newline(prefix, indent, depth) == NL \o prefix \o Repeat(indent, depth)

RECURSIVE indentScan(_, _, _, _, _, _)
indentScan(src, i, prefix, indent, st, dst) ==
  IF i > Len(src) THEN dst
  ELSE
    LET c == src[i]
        closing == ~st.inString /\ c \in {"}", "]"}
        bump == st.needIndent /\ ~closing
        depth1 == IF bump THEN st.depth + 1 ELSE st.depth
        need1 == IF bump THEN FALSE ELSE st.needIndent
        dst1 == IF bump THEN dst \o newline(prefix, indent, depth1) ELSE dst
    IN IF st.inString
       THEN indentScan(src, i + 1, prefix, indent,
                       [inString |-> c # QUOTE, needIndent |-> need1, depth |-> depth1],
                       Append(dst1, c))
       ELSE IF c = QUOTE
       THEN indentScan(src, i + 1, prefix, indent,
                       [inString |-> TRUE, needIndent |-> need1, depth |-> depth1],
                       Append(dst1, c))
       ELSE IF c \in {"{", "["}
       THEN indentScan(src, i + 1, prefix, indent,
                       [inString |-> FALSE, needIndent |-> TRUE, depth |-> depth1],
                       Append(dst1, c))
       ELSE IF c = ","
       THEN indentScan(src, i + 1, prefix, indent,
                       [inString |-> FALSE, needIndent |-> need1, depth |-> depth1],
                       Append(dst1, c) \o newline(prefix, indent, depth1))
       ELSE IF c = ":"
       THEN indentScan(src, i + 1, prefix, indent,
                       [inString |-> FALSE, needIndent |-> need1, depth |-> depth1],
                       dst1 \o <<c, " ">>)
       ELSE IF closing
       THEN IF need1
            THEN indentScan(src, i + 1, prefix, indent,
                            [inString |-> FALSE, needIndent |-> FALSE, depth |-> depth1],
                            Append(dst1, c))
            ELSE indentScan(src, i + 1, prefix, indent,
                            [inString |-> FALSE, needIndent |-> FALSE, depth |-> depth1 - 1],
                            Append(dst1 \o newline(prefix, indent, depth1 - 1), c))
       ELSE indentScan(src, i + 1, prefix, indent,
                       [inString |-> FALSE, needIndent |-> need1, depth |-> depth1],
                       Append(dst1, c))

Indent(src, prefix, indent) ==
  indentScan(src, 1, prefix, indent,
             [inString |-> FALSE, needIndent |-> FALSE, depth |-> 0], <<>>)

MarshalIndent(v, prefix, indent) ==
  LET m == Marshal(v)
  IN IF m.err # NilErr THEN m
     ELSE [data |-> Indent(m.data, prefix, indent), err |-> NilErr]

(* ---------------------------------------------------------------------- *)
(* fmt.Fprintf on string operands.  After '%' the flag characters are      *)
(* skipped; widths, precisions and argument indexes are not modelled and   *)
(* no input of the model contains them after a '%'.                        *)
(* ---------------------------------------------------------------------- *)
FmtFlags == {"#", "0", "+", "-", " "}
percentBang == <<"%", "!">>
noVerb == <<"%", "!", "(", "N", "O", "V", "E", "R", "B", ")">>
missing == <<"(", "M", "I", "S", "S", "I", "N", "G", ")">>
extra == <<"%", "!", "(", "E", "X", "T", "R", "A", " ">>
stringEq == <<"s", "t", "r", "i", "n", "g", "=">>

RECURSIVE skipFlags(_, _)
skipFlags(format, i) ==
  IF i <= Len(format) /\ format[i] \in FmtFlags THEN skipFlags(format, i + 1) ELSE i

RECURSIVE extraArgs(_, _)
extraArgs(a, n) ==
  IF n > Len(a) THEN <<")">>
  ELSE stringEq \o a[n] \o (IF n < Len(a) THEN <<",", " ">> ELSE <<>>)
       \o extraArgs(a, n + 1)

RECURSIVE fmtScan(_, _, _, _)
fmtScan(format, a, i, argNum) ==
  IF i > Len(format)
  THEN IF argNum < Len(a) THEN extra \o extraArgs(a, argNum + 1) ELSE <<>>
  ELSE IF format[i] # "%"
  THEN <<format[i]>> \o fmtScan(format, a, i + 1, argNum)
  ELSE
    LET j == skipFlags(format, i + 1)
    IN IF j > Len(format)
       THEN noVerb \o fmtScan(format, a, j, argNum)
       ELSE LET verb == format[j]
            IN IF verb = "%"
               THEN <<"%">> \o fmtScan(format, a, j + 1, argNum)
               ELSE IF argNum >= Len(a)
               THEN percentBang \o <<verb>> \o missing
                    \o fmtScan(format, a, j + 1, argNum)
               ELSE IF verb \in {"s", "v"}
               THEN a[argNum + 1] \o fmtScan(format, a, j + 1, argNum + 1)
               ELSE percentBang \o <<verb, "(">> \o stringEq \o a[argNum + 1]
                    \o <<")">> \o fmtScan(format, a, j + 1, argNum + 1)

Sprintf(format, a) == fmtScan(format, a, 1, 0)

(* ---------------------------------------------------------------------- *)
(* The output side                                                        *)
(* ---------------------------------------------------------------------- *)
NewColorableStdout(s) == [sinks |-> Append(s, <<>>), w |-> Len(s) + 1]

SinkWrite(s, w, data) == [s EXCEPT ![w] = @ \o data]

Fprintf(s, w, format, a) == SinkWrite(s, w, Sprintf(format, a))

writerIsNilAlways(c) == TRUE

writerIsNil(c) == c.writer = NilWriter

WriterAlwaysNew(c, s) ==
  LET n == NewColorableStdout(s)
  IN Result([c EXCEPT !.writer = n.w], n.sinks, n.w, "none")

Writer(c, s) ==
  IF writerIsNil(c)
  THEN LET n == NewColorableStdout(s)
       IN Result([c EXCEPT !.writer = n.w], n.sinks, n.w, "none")
  ELSE Result(c, s, c.writer, "none")

Write(c, s, data) ==
  LET w == Writer(c, s)
  IN Result(w.ctx, SinkWrite(w.sinks, w.ret, data),
            [n |-> Len(data), err |-> NilErr], "none")

String(c, s, format, a) ==
  LET w == Writer(c, s)
  IN Result(w.ctx, Fprintf(w.sinks, w.ret, format, a), "ctx", "none")

CommandUsage(cmd, c) ==
  IF cmd = "hello" THEN <<"u", "s", "e">> ELSE <<"1", "0", "0", "%", "\n">>

Usage(c, s) ==
  IF c.command = "nil" THEN Result(c, s, "none", "nil dereference")
  ELSE Result(c, s, CommandUsage(c.command, c), "none")

WriteUsage(c, s) ==
  LET u == Usage(c, s)
  IN IF u.panic # "none" THEN u
     ELSE LET r == String(c, s, u.ret, <<>>)
          IN Result(r.ctx, r.sinks, "none", r.panic)

JSONEagerWriter(c, s, obj) ==
  LET m == Marshal(obj)
      w == Writer(c, s)
  IN IF m.err = NilErr
     THEN Result(w.ctx, Fprintf(w.sinks, w.ret, m.data, <<>>), "ctx", "none")
     ELSE Result(w.ctx, w.sinks, "ctx", "none")

JSON(c, s, obj) ==
  LET m == Marshal(obj)
  IN IF m.err = NilErr
     THEN LET w == Writer(c, s)
          IN Result(w.ctx, Fprintf(w.sinks, w.ret, m.data, <<>>), "ctx", "none")
     ELSE Result(c, s, "ctx", "none")

JSONln(c, s, obj) ==
  LET j == JSON(c, s, obj)
  IN String(j.ctx, j.sinks, NL, <<>>)

JSONIndent(c, s, obj, prefix, indent) ==
  LET m == MarshalIndent(obj, prefix, indent)
  IN IF m.err = NilErr
     THEN LET w == Writer(c, s)
          IN Result(w.ctx, Fprintf(w.sinks, w.ret, m.data, <<>>), "ctx", "none")
     ELSE Result(c, s, "ctx", "none")

JSONIndentlnNoNewline(c, s, obj, prefix, indent) ==
  JSONIndent(c, s, obj, prefix, indent)

JSONIndentln(c, s, obj, prefix, indent) ==
  LET j == JSONIndent(c, s, obj, prefix, indent)
  IN String(j.ctx, j.sinks, NL, <<>>)

(* ---------------------------------------------------------------------- *)
(* State machine: one context, used by one handler                        *)
(* ---------------------------------------------------------------------- *)
Invocations ==
  {[router |-> <<Hello>>, args |-> <<>>],
   [router |-> <<Hello>>, args |-> << <<"-", "a", "=">> >>],
   [router |-> <<Hello, World>>,
    args |-> << <<"-", "a", "=", "1">>, <<"a", "b", "c">>, <<"x", "y", "z">> >>]}
Argvs == {NilArgv, "argv0", "argvA"}
Colors == {"color"}
IsSetQueries == {<<"a">>, <<"z">>}
WriteData == {<<"%", "d">>}
StringCalls == {[format |-> NL, a |-> <<>>],
                [format |-> <<"%", "s">>, a |-> << <<"a">> >>]}
IndentParams == {[prefix |-> <<>>, indent |-> <<" ", " ">>]}

Threads == 1 .. NThreads

Init ==
  /\ phase = "new"
  /\ input = None
  /\ ctx = None
  /\ err = NilErr
  /\ sinks = <<>>
  /\ lastOp = [op |-> "none", arg |-> <<>>]
  /\ ret = "none"
  /\ wrote = <<>>
  /\ panicked = FALSE
  /\ nwrites = 0
  /\ firstWriter = NilWriter
  /\ serial = TRUE
  /\ pc = [t \in Threads |-> "idle"]
  /\ tnew = [t \in Threads |-> NilWriter]
  /\ tret = [t \in Threads |-> NilWriter]
  /\ tcalls = [t \in Threads |-> 0]

matchedCommand(router) == IF Len(router) = 1 THEN "hello" ELSE "world"

Dispatch(router, args, argv, clr) ==
  LET parsed == parseArgv(args, argv, clr)
      r == newContext(Join(router, SP), router, args, argv, clr, parsed)
  IN /\ phase = "new"
     /\ input' = Some([router |-> router, args |-> args, argv |-> argv,
                       clr |-> clr, parsed |-> parsed])
     /\ ctx' = IF r.ctx = None THEN None
               ELSE Some([r.ctx[1] EXCEPT !.command = matchedCommand(router)])
     /\ err' = r.err
     /\ phase' = IF r.ctx = None THEN "failed" ELSE "run"
     /\ lastOp' = [op |-> "newContext", arg |-> <<>>]
     /\ UNCHANGED <<sinks, ret, wrote, panicked, nwrites, firstWriter, thrVars>>

Construct ==
  \E inv \in Invocations, argv \in Argvs, clr \in Colors :
    Dispatch(inv.router, inv.args, argv, clr)

Delta(s, s2) ==
  Concat([i \in 1 .. Len(s2) |->
            IF i <= Len(s) THEN SubSeq(s2[i], Len(s[i]) + 1, Len(s2[i]))
            ELSE s2[i]])

Do(op, arg, r) ==
  /\ ctx' = Some(r.ctx)
  /\ sinks' = r.sinks
  /\ ret' = r.ret
  /\ lastOp' = [op |-> op, arg |-> arg]
  /\ wrote' = Delta(sinks, r.sinks)
  /\ panicked' = (r.panic # "none")
  /\ phase' = IF r.panic # "none" THEN "aborted" ELSE "run"
  /\ firstWriter' = IF firstWriter = NilWriter THEN r.ctx.writer ELSE firstWriter
  /\ UNCHANGED <<input, err, thrVars>>

Read(op, arg, r) == phase = "run" /\ Do(op, arg, r) /\ UNCHANGED nwrites

Emit(op, arg, r) ==
  /\ phase = "run"
  /\ nwrites < MaxWrites
  /\ Do(op, arg, r)
  /\ nwrites' = nwrites + 1

CallPath == phase = "run" /\ Read("Path", <<>>, Path(ctx[1], sinks))
CallRouter == phase = "run" /\ Read("Router", <<>>, Router(ctx[1], sinks))
CallNativeArgs == phase = "run" /\ Read("NativeArgs", <<>>, NativeArgs(ctx[1], sinks))
CallArgs == phase = "run" /\ Read("Args", <<>>, Args(ctx[1], sinks))
CallNArg == phase = "run" /\ Read("NArg", <<>>, NArg(ctx[1], sinks))
CallArgv == phase = "run" /\ Read("Argv", <<>>, Argv(ctx[1], sinks))
CallIsSet ==
  phase = "run" /\ \E f \in IsSetQueries : Read("IsSet", f, IsSet(ctx[1], sinks, f))
CallFormValues == phase = "run" /\ Read("FormValues", <<>>, FormValues(ctx[1], sinks))
CallCommand == phase = "run" /\ Read("Command", <<>>, Command(ctx[1], sinks))
CallUsage == phase = "run" /\ Read("Usage", <<>>, Usage(ctx[1], sinks))
CallColor == phase = "run" /\ Read("Color", <<>>, Color(ctx[1], sinks))
CallWriter == phase = "run" /\ Read("Writer", <<>>, Writer(ctx[1], sinks))

CallWrite ==
  phase = "run" /\ \E d \in WriteData : Emit("Write", d, Write(ctx[1], sinks, d))
CallString ==
  phase = "run" /\ \E f \in StringCalls :
    Emit("String", f, String(ctx[1], sinks, f.format, f.a))
CallWriteUsage ==
  phase = "run" /\ Emit("WriteUsage", <<>>, WriteUsage(ctx[1], sinks))
CallJSON ==
  phase = "run" /\ \E v \in Values : Emit("JSON", v, JSON(ctx[1], sinks, v))
CallJSONln ==
  phase = "run" /\ \E v \in Values : Emit("JSONln", v, JSONln(ctx[1], sinks, v))
CallJSONIndent ==
  phase = "run" /\ \E v \in Values, ip \in IndentParams :
    Emit("JSONIndent", [v |-> v, prefix |-> ip.prefix, indent |-> ip.indent],
         JSONIndent(ctx[1], sinks, v, ip.prefix, ip.indent))
CallJSONIndentln ==
  phase = "run" /\ \E v \in Values, ip \in IndentParams :
    Emit("JSONIndentln", [v |-> v, prefix |-> ip.prefix, indent |-> ip.indent],
         JSONIndentln(ctx[1], sinks, v, ip.prefix, ip.indent))

Next ==
  \/ Construct
  \/ CallPath
  \/ CallRouter
  \/ CallNativeArgs
  \/ CallArgs
  \/ CallNArg
  \/ CallArgv
  \/ CallIsSet
  \/ CallFormValues
  \/ CallCommand
  \/ CallUsage
  \/ CallColor
  \/ CallWriter
  \/ CallWrite
  \/ CallString
  \/ CallWriteUsage
  \/ CallJSON
  \/ CallJSONln
  \/ CallJSONIndent
  \/ CallJSONIndentln

Spec == Init /\ [][Next]_vars

(* ---------------------------------------------------------------------- *)
(* Several threads calling Writer() on one context.  Each statement of     *)
(* Writer is a step of its own; nothing in the code orders the steps of    *)
(* different threads.  With serial = TRUE the caller lets one thread at a  *)
(* time into Writer.  The read of ctx.writer in the return statement races *)
(* with the other thread's assignment: the thread that has just assigned   *)
(* may return the value it assigned or the value now in the field.         *)
(* ---------------------------------------------------------------------- *)
InitConc ==
  /\ phase = "new"
  /\ input = None
  /\ ctx = None
  /\ err = NilErr
  /\ sinks = <<>>
  /\ lastOp = [op |-> "none", arg |-> <<>>]
  /\ ret = "none"
  /\ wrote = <<>>
  /\ panicked = FALSE
  /\ nwrites = 0
  /\ firstWriter = NilWriter
  /\ serial \in BOOLEAN
  /\ pc = [t \in Threads |-> "idle"]
  /\ tnew = [t \in Threads |-> NilWriter]
  /\ tret = [t \in Threads |-> NilWriter]
  /\ tcalls = [t \in Threads |-> 0]

WriterEnter(t) ==
  /\ phase = "run"
  /\ pc[t] = "idle"
  /\ tcalls[t] < MaxThreadCalls
  /\ serial => \A u \in Threads : pc[u] = "idle"
  /\ pc' = [pc EXCEPT ![t] = "check"]
  /\ tnew' = [tnew EXCEPT ![t] = NilWriter]
  /\ tcalls' = [tcalls EXCEPT ![t] = @ + 1]
  /\ UNCHANGED <<seqVars, serial, tret>>

WriterCheck(t) ==
  /\ pc[t] = "check"
  /\ pc' = [pc EXCEPT ![t] = IF writerIsNil(ctx[1]) THEN "new" ELSE "return"]
  /\ UNCHANGED <<seqVars, serial, tnew, tret, tcalls>>

WriterNew(t) ==
  /\ pc[t] = "new"
  /\ LET n == NewColorableStdout(sinks)
     IN /\ sinks' = n.sinks
        /\ ctx' = Some([ctx[1] EXCEPT !.writer = n.w])
        /\ tnew' = [tnew EXCEPT ![t] = n.w]
  /\ pc' = [pc EXCEPT ![t] = "return"]
  /\ UNCHANGED <<phase, input, err, lastOp, ret, wrote, panicked, nwrites,
                 firstWriter, serial, tret, tcalls>>

WriterReturn(t) ==
  /\ pc[t] = "return"
  /\ \E w \in {ctx[1].writer} \cup (IF tnew[t] # NilWriter THEN {tnew[t]} ELSE {}) :
       tret' = [tret EXCEPT ![t] = w]
  /\ pc' = [pc EXCEPT ![t] = "idle"]
  /\ UNCHANGED <<seqVars, serial, tnew, tcalls>>

ThreadEnter == \E t \in Threads : WriterEnter(t)
ThreadCheck == \E t \in Threads : WriterCheck(t)
ThreadNew == \E t \in Threads : WriterNew(t)
ThreadReturn == \E t \in Threads : WriterReturn(t)

NextConc ==
  \/ Construct
  \/ ThreadEnter
  \/ ThreadCheck
  \/ ThreadNew
  \/ ThreadReturn

SpecConc == InitConc /\ [][NextConc]_vars

(* ---------------------------------------------------------------------- *)
(* Properties                                                             *)
(* ---------------------------------------------------------------------- *)
JSONFamily == {"JSON", "JSONln", "JSONIndent", "JSONIndentln"}
Accessors == {"Path", "Router", "NativeArgs", "Args", "NArg", "Argv", "IsSet",
              "FormValues", "Command"}

EncodingOf(l) ==
  IF l.op \in {"JSON", "JSONln"} THEN Marshal(l.arg)
  ELSE MarshalIndent(l.arg.v, l.arg.prefix, l.arg.indent)

(* C1: newContext is all-or-nothing.  With argv present and a parser state  *)
(* that carries an error it returns no context and exactly that error;     *)
(* with argv present and no parser error it returns a context and no       *)
(* error; it never returns both a context and an error, nor neither.       *)
NewContextAllOrNothing ==
  phase # "new" =>
    /\ (input[1].argv # NilArgv /\ input[1].parsed.err # NilErr)
         => (ctx = None /\ err = input[1].parsed.err)
    /\ (input[1].argv # NilArgv /\ input[1].parsed.err = NilErr)
         => (ctx # None /\ err = NilErr)
    /\ (ctx = None) <=> (err # NilErr)

NewContextParseErrorWitness ==
  /\ phase = "failed"
  /\ input[1].argv # NilArgv
  /\ ctx = None
  /\ err = "undefined flag"

(* C2: for every serializable value the bytes that reach the writer are    *)
(* exactly the encoder's text: JSON writes the compact encoding, JSONln    *)
(* that text and one newline, JSONIndent the indented encoding and         *)
(* JSONIndentln that text and one newline.                                 *)
JSONWritesEncoderText ==
  (lastOp.op \in JSONFamily /\ EncodingOf(lastOp).err = NilErr) =>
    wrote = EncodingOf(lastOp).data
              \o (IF lastOp.op \in {"JSONln", "JSONIndentln"} THEN NL ELSE <<>>)

(* C3: when the value passed to JSON or JSONIndent cannot be serialized,   *)
(* the call writes no bytes, surfaces no error, returns the context it was *)
(* called on and leaves the context as it was, an absent writer included.  *)
JSONFailureIsSilent ==
  [][(lastOp'.op \in {"JSON", "JSONIndent"} /\ EncodingOf(lastOp').err # NilErr)
       => /\ ctx' = ctx
          /\ sinks' = sinks
          /\ wrote' = <<>>
          /\ ret' = "ctx"
          /\ ~panicked']_vars

JSONFailureWitness ==
  /\ lastOp.op = "JSON"
  /\ lastOp.arg \in Unserializable
  /\ ctx[1].writer = NilWriter
  /\ sinks = <<>>

(* C4 as stated: every JSON-family writer, JSONln and JSONIndentln         *)
(* included, writes no bytes at all when serialization fails, and reports  *)
(* no error.                                                               *)
JSONFamilyFailureWritesNothing ==
  (lastOp.op \in JSONFamily /\ EncodingOf(lastOp).err # NilErr) =>
    (wrote = <<>> /\ ret = "ctx" /\ ~panicked)

(* C4 amended: when serialization fails no JSON-family writer reports an   *)
(* error; JSON and JSONIndent write no bytes, while JSONln and             *)
(* JSONIndentln still write their trailing newline, exactly one newline    *)
(* and nothing else.                                                       *)
JSONFamilyFailureWritesOnlyNewline ==
  (lastOp.op \in JSONFamily /\ EncodingOf(lastOp).err # NilErr) =>
    /\ wrote = (IF lastOp.op \in {"JSONln", "JSONIndentln"} THEN NL ELSE <<>>)
    /\ ret = "ctx"
    /\ ~panicked

JSONlnFailureWitness ==
  /\ lastOp.op = "JSONIndentln"
  /\ lastOp.arg.v \in Unserializable
  /\ wrote = NL
  /\ sinks[ctx[1].writer] # <<>>

(* C5: in sequential use the writer is a lazy singleton: the default       *)
(* constructor runs at most once and only when a call needs the writer,    *)
(* every Writer() call returns the sink the first one returned, and all    *)
(* bytes written through the context are in that one sink.                 *)
LazySingletonWriter ==
  /\ Len(sinks) <= 1
  /\ ctx # None =>
       /\ (ctx[1].writer = NilWriter) <=> (sinks = <<>>)
       /\ firstWriter = ctx[1].writer
  /\ lastOp.op = "Writer" => (ret = firstWriter /\ ret # NilWriter)
  /\ \A i \in DOMAIN sinks : i # firstWriter => sinks[i] = <<>>

LazySingletonWitness ==
  /\ lastOp.op = "Writer"
  /\ nwrites >= 2
  /\ Len(sinks) = 1
  /\ ret = 1
  /\ Len(sinks[1]) > 2

(* C6: the parser state of a context is never absent: a context built      *)
(* with an absent argv has the empty parser state (no free arguments), a   *)
(* context built with argv has the parser's state, no operation makes it   *)
(* absent, and FormValues never reaches its fatal abort.                   *)
FlagSetNeverAbsent ==
  /\ ~panicked
  /\ phase # "aborted"
  /\ ctx # None =>
       /\ ctx[1].flagSet # None
       /\ input[1].argv = NilArgv => ctx[1].flagSet = Some(newFlagSet)
       /\ input[1].argv = NilArgv => Len(ctx[1].flagSet[1].args) = 0
       /\ input[1].argv # NilArgv => ctx[1].flagSet = Some(input[1].parsed)

FormValuesWitness ==
  /\ lastOp.op = "FormValues"
  /\ input[1].argv = NilArgv
  /\ DOMAIN ret = {}
  /\ nwrites > 0

(* C7: IsSet(f) is true exactly when f is a key of the parser's flag table *)
(* and the recorded actual value of that flag is not empty.                *)
IsSetIffActualNonEmpty ==
  lastOp.op = "IsSet" =>
    ret = (\E f \in DOMAIN ctx[1].flagSet[1].flagMap :
             f = lastOp.arg /\ ctx[1].flagSet[1].flagMap[f].actual # <<>>)

IsSetEmptyActualWitness ==
  /\ lastOp.op = "IsSet"
  /\ lastOp.arg \in DOMAIN ctx[1].flagSet[1].flagMap
  /\ ctx[1].flagSet[1].flagMap[lastOp.arg].actual = <<>>
  /\ ret = FALSE

(* C8: for every context that construction returns, and in every later     *)
(* state, the path is the router joined with single spaces, and Path()     *)
(* returns that string.                                                    *)
PathIsJoinedRouter ==
  /\ ctx # None => ctx[1].path = Join(ctx[1].router, SP)
  /\ lastOp.op = "Path" => ret = Join(Router(ctx[1], sinks).ret, SP)

PathWitness ==
  /\ lastOp.op = "Path"
  /\ ret = Hello \o SP \o World
  /\ ctx[1].router = <<Hello, World>>
  /\ nwrites > 0

(* C9: the accessors are pure reads: a call leaves the context and the     *)
(* sinks unchanged (an absent writer stays absent), returns the field it   *)
(* names (NativeArgs the constructor's tokens, NArg the length of Args),   *)
(* and a repeated call returns the same result.                            *)
AccessorResult(op, arg) ==
  IF op = "Path" THEN ctx[1].path
  ELSE IF op = "Router" THEN input[1].router
  ELSE IF op = "NativeArgs" THEN input[1].args
  ELSE IF op = "Args" THEN ctx[1].flagSet[1].args
  ELSE IF op = "NArg" THEN Len(Args(ctx[1], sinks).ret)
  ELSE IF op = "Argv" THEN input[1].argv
  ELSE IF op = "IsSet"
  THEN /\ arg \in DOMAIN ctx[1].flagSet[1].flagMap
       /\ ctx[1].flagSet[1].flagMap[arg].actual # <<>>
  ELSE IF op = "FormValues" THEN ctx[1].flagSet[1].values
  ELSE ctx[1].command

AccessorsArePureReads ==
  [][(lastOp'.op \in Accessors)
       => /\ ctx' = ctx
          /\ sinks' = sinks
          /\ wrote' = <<>>
          /\ ~panicked'
          /\ ret' = AccessorResult(lastOp'.op, lastOp'.arg)
          /\ (lastOp.op = lastOp'.op /\ lastOp.arg = lastOp'.arg) => ret' = ret]_vars

AccessorWitness ==
  /\ lastOp.op = "NArg"
  /\ ret = 2
  /\ Len(input[1].args) = 3
  /\ ctx[1].writer = NilWriter

(* C10: the lazy initialisation of the writer is an unguarded              *)
(* check-then-set.  When the caller serializes the calls the constructor   *)
(* runs at most once and every call returns the same sink; without         *)
(* serialization two threads can both see the writer absent, both          *)
(* construct a sink, and return different sinks.                           *)
SerializedWriterIsSingleton ==
  serial =>
    /\ Len(sinks) <= 1
    /\ \A t, u \in Threads :
         (tret[t] # NilWriter /\ tret[u] # NilWriter) => tret[t] = tret[u]

WriterRaceWitness ==
  /\ ~serial
  /\ Len(sinks) = 2
  /\ \E t, u \in Threads :
       /\ t # u
       /\ tnew[t] # NilWriter
       /\ tnew[u] # NilWriter
       /\ tnew[t] # tnew[u]
       /\ tret[t] = tnew[t]
       /\ tret[u] = tnew[u]

====
